---- MODULE Spec2Model ----
(***************************************************************************)
(* Experiment / Trial lifecycle of src/experimenting: the Experiment       *)
(* context manager (experiment.py) and the Trial context manager           *)
(* (helpers/trial.py), with the files they write.                          *)
(*                                                                         *)
(* One Experiment object and the Trial objects made on it.  A Trial object *)
(* lives from its construction to the end of its scope; what remains of it *)
(* afterwards is the trial_data record it appended to the experiment's     *)
(* collection (trial.py:229), if it appended one.                          *)
(***************************************************************************)
EXTENDS Integers, Sequences, FiniteSets, TLC

\* ---------------------------------------------------------------- bounds
MaxTrials == 3          \* Trial objects not yet closed plus records retained
MaxConstructions == 2   \* Experiment objects constructed over the directory
MaxCount == 11          \* descriptors drawn from a stream that has no end
MaxStops == 2           \* __next__ calls on an exhausted stream

Objs == 1..MaxTrials
AccValues == {1, 2}     \* the accuracy scores the producer reports

\* ------------------------------------------------------------ vocabulary
None == "None"

\* Trial names are character sequences, so that normalisation is computed.
TrialNames == { <<"T", " ", "a">>, <<"t", "_", "a">> }

MetricKeys == {"accuracy"}
FigureKeys == {"fig"}
\* hyperparameters json.dump accepts; "hp_object" stands for those it rejects
HyperSet == {"hp_json"}

\* body faults: the exception classes the scope bodies raise
BodyFaults == {"ValueError", "RuntimeError"}

\* class hierarchy (isinstance): builtin classes, and
\* class ExperimentError(Exception)
Bases(t) ==
    CASE t = "ValueError" -> {"ValueError", "Exception"}
      [] t = "RuntimeError" -> {"RuntimeError", "Exception"}
      [] t = "KeyError" -> {"KeyError", "LookupError", "Exception"}
      [] t = "ExperimentError" -> {"ExperimentError", "Exception"}
      [] t = "AttributeError" -> {"AttributeError", "Exception"}
      [] t = "TypeError" -> {"TypeError", "Exception"}
      [] OTHER -> {}

NoExc == [type |-> None, traceback |-> FALSE, cause |-> None]
Exc(t, c) == [type |-> t, traceback |-> TRUE, cause |-> c]

\* ------------------------------------------------------- pure functions
\* str.lower() and str.replace(" ", "_") on one character
LowerChar(c) == CASE c = "T" -> "t" [] OTHER -> c
ReplaceSpace(c) == IF c = " " THEN "_" ELSE c

\* normalize_trial_name: trial_name.replace(" ", "_").lower()
normalize_trial_name(n) == [i \in DOMAIN n |-> LowerChar(ReplaceSpace(n[i]))]

\* _make_trial_directory: join(experiment_directory,
\*     name.replace(' ', '_').lower()); the second argument of the join,
\* which names the trial directory within the experiment
_make_trial_directory(n) == [i \in DOMAIN n |-> LowerChar(ReplaceSpace(n[i]))]

\* trial names that read as a path to another directory
PathTrialNames == { << ".", ".", "/", "x" >> }

TrialDirs ==
    { _make_trial_directory(normalize_trial_name(n)) :
        n \in TrialNames \cup PathTrialNames }

\* A path is a sequence of components, a component a sequence of characters.
\* The working directory is the root.
Cwd == << << "/" >> >>

\* os.path.normpath: the "." components are dropped
normpath(p) == LET Keep(c) == c # << "." >> IN SelectSeq(p, Keep)

\* os.path.abspath: a relative path is taken from the working directory
abspath(p) == IF p # << >> /\ p[1] = << "/" >> THEN p ELSE Cwd \o p

\* str.split("/") of a string of characters: its components
RECURSIVE SplitPath(_)
SplitPath(s) ==
    IF s = << >> THEN << >>
    ELSE LET n == IF \E i \in DOMAIN s : s[i] = "/"
                  THEN (CHOOSE i \in DOMAIN s :
                            s[i] = "/" /\ \A j \in 1..(i-1) : s[j] # "/") - 1
                  ELSE Len(s)
             first == SubSeq(s, 1, n)
             rest == SubSeq(s, n + 2, Len(s))
         IN (IF first = << >> THEN << >> ELSE << first >>) \o SplitPath(rest)

\* os.path.join(a, b) of a path a and a string b: a string that starts with
\* the separator discards a
os_path_join(a, b) ==
    IF b # << >> /\ b[1] = "/"
    THEN << << "/" >> >> \o SplitPath(b)
    ELSE a \o SplitPath(b)

\* the directory the system reaches by a path: ".." leaves the directory
\* reached so far, except at the root
RECURSIVE Resolve(_)
Resolve(p) ==
    IF p = << >> THEN << >>
    ELSE LET front == Resolve(SubSeq(p, 1, Len(p) - 1))
             last == p[Len(p)]
         IN IF last = << "." >> THEN front
            ELSE IF last = << ".", "." >>
            THEN IF Len(front) > 1 THEN SubSeq(front, 1, Len(front) - 1)
                 ELSE front
            ELSE Append(front, last)

\* Experiment._make_experiment_directory: the path
\* join(abspath(normpath(directory)), name.replace(" ", "_"))
_make_experiment_directory(directory, name) ==
    abspath(normpath(directory)) \o << [i \in DOMAIN name |-> ReplaceSpace(name[i])] >>

\* the base paths and experiment names given to Experiment(...): they all
\* resolve to the one experiment directory whose content is modelled
BasePaths == { << << "/" >>, << "r" >> >>, << << "r" >> >>,
               << << "r" >>, << "." >> >> }
ExperimentNames == { << "E", " ", "x" >>, << "E", "_", "x" >> }

\* the slots Trial requires of its parent
RequiredSlots == { "figures", "evaluation_metrics" }

\* dict[k] = v
Put(d, k, v) == [j \in (DOMAIN d) \cup {k} |-> IF j = k THEN v ELSE d[j]]

\* the dicts the producer code hands to the result slots
MetricDicts == { << >> } \cup { Put(<< >>, "accuracy", v) : v \in AccValues }
FigureDicts == { << >> } \cup { Put(<< >>, f, "figure") : f \in FigureKeys }

\* ------------------------------------------------------------------ state
VARIABLES
    expPc,            \* Experiment scope: "created", "open", "closed", "faulted"
    experiment_data,  \* Experiment.experiment_data
    _figures,         \* Experiment._figures: figure name -> figure
    _evaluation_metrics, \* Experiment._evaluation_metrics: metric -> value
    history_slot,     \* does the parent's result accessor carry "training_history"
    tstate,           \* per Trial object: "absent", "created", "open"
    trial_data,       \* per Trial object: Trial.trial_data
    _already_runned,  \* per Trial object: Trial._already_runned
    populated,        \* per Trial object: a result slot was set during its scope
    last_close,       \* what the latest Trial.__exit__ did
    directories,      \* trial directories made (os.makedirs)
    trial_info,       \* trial directory -> content of trial_info.json
    figure_files,     \* figure files saved, as <<trial directory, figure name>>
    experiment_info,  \* content of experiment_info.json
    report,           \* content of experiment_report.md
    render_calls,     \* number of create_experiment_report calls
    exc_info,         \* the fault propagating through the scopes
    body_fault,       \* the class of the fault the scope body raised
    raised,           \* the exception that left Experiment.__exit__
    parent_slots,     \* the result slots the parent object of the trials has
    constructions,    \* Experiment objects constructed over the directory
    hp_warning,       \* the latest Trial.__exit__ warned about hyperparameters
    sharing,          \* positions of the collection whose evaluation_metrics
                      \* is the very mapping of the parent's slot
    iterator,         \* the _TrialsDefinitionsIterator object
    yielded,          \* what the iterator's __next__ returned, in order
    suggested,        \* what the suggester's suggest_next returned, in order
    stops,            \* StopIteration raised by the iterator's __next__
    load_warnings,    \* keys _process_trials_definitions warned about
    loaded,           \* experiment_definitions as load_definitions_of_experiment
                      \* returned them
    definitions_file, \* what is at the path given to the load
    file_lines        \* MarkdownFileWriter.file_lines

vars == << expPc, experiment_data, _figures, _evaluation_metrics, history_slot,
           tstate, trial_data, _already_runned, populated, last_close,
           directories, trial_info, figure_files, experiment_info, report,
           render_calls, exc_info, body_fault, raised, parent_slots,
           constructions, hp_warning, sharing, iterator, yielded, suggested,
           stops,
           load_warnings, loaded, definitions_file, file_lines >>

\* groups of variables an operation leaves alone
slotVars == << _figures, _evaluation_metrics >>
trialVars == << tstate, trial_data, _already_runned >>
trialFiles == << directories, trial_info, figure_files >>
experimentFiles == << experiment_info, report, render_calls >>
streamVars == << iterator, yielded, suggested, stops, load_warnings, loaded,
                definitions_file >>
writerVars == << file_lines >>
\* what no operation of an Experiment or Trial scope changes
parentVars == << history_slot, parent_slots, constructions, hp_warning,
                streamVars, writerVars >>
outerVars == << parentVars, sharing >>
\* the content of the experiment directory
diskVars == << trialFiles, experiment_info, report >>

\* a file that does not exist
NoFile == [exists |-> FALSE]

\* the record of a Trial object that does not exist
NoTrial == [name |-> None]

\* Trial._init_trial_data: the trial_data dict
_init_trial_data(name, hyperparameters) ==
    [ name |-> name,
      start_time |-> None,
      duration |-> None,
      directory |-> _make_trial_directory(normalize_trial_name(name)),
      hyperparameters |-> hyperparameters,
      figures |-> None,
      evaluation_metrics |-> None,
      training_history |-> None ]

\* [trial["name"] for trial in self.experiment_trials]
TrialNamesOf(ts) == [i \in DOMAIN ts |-> ts[i].name]

InSeq(x, s) == \E i \in DOMAIN s : s[i] = x

\* mutant: the flag is set whenever some trial is recorded
CheckAnyRecorded(name) == experiment_data.trials # << >>

\* mutant: the names are compared as their directories are made
CheckNormalized(name) ==
    \E i \in DOMAIN experiment_data.trials :
        normalize_trial_name(experiment_data.trials[i].name)
            = normalize_trial_name(name)

\* Trial._check_if_already_runned
_check_if_already_runned(name) == InSeq(name, TrialNamesOf(experiment_data.trials))

\* list.index: the first position of x
IndexOf(x, s) == CHOOSE i \in DOMAIN s : s[i] = x /\ \A j \in 1..(i-1) : s[j] # x

\* mutant: the record is put first
InsertFirst(ts, td) == << td >> \o ts

\* self.experiment_trials.append(self.trial_data)
experiment_trials_append(ts, td) == Append(ts, td)

\* list.pop(index)
Pop(s, i) == [j \in 1..(Len(s)-1) |-> IF j < i THEN s[j] ELSE s[j+1]]

\* where the positions P of a list are after list.pop(index)
PopPositions(P, i) == { IF j > i THEN j - 1 ELSE j : j \in P \ { i } }

\* mutant: the record is given the mapping of the slot itself
SameMapping(mapping) == mapping

\* copy(trial_results["evaluation_metrics"]): a new mapping with the
\* entries of the given one
copy(mapping) == [mapping EXCEPT !.object = "new"]

\* Experiment.get_results
get_results == [figures |-> _figures, evaluation_metrics |-> _evaluation_metrics]

\* Trial.fetch_trial_results: the parent's accessor.  Experiment.get_results
\* has two keys; a parent whose accessor also reports the training history
\* (here: none recorded) has the third
fetch_trial_results ==
    IF history_slot
    THEN [figures |-> _figures, evaluation_metrics |-> _evaluation_metrics,
          training_history |-> << >>]
    ELSE get_results

\* results_empty = all(value == {} for value in trial_results.values())
results_empty(trial_results) ==
    \A k \in DOMAIN trial_results : trial_results[k] = << >>

\* Experiment.__init__: the experiment_data dict
NewExperimentData(directory, name, description) ==
    [ name |-> name,
      description |-> description,
      start_time |-> None,
      duration |-> None,
      directory |-> _make_experiment_directory(directory, name),
      trials |-> << >> ]

\* an experiment directory just made
EmptyDir ==
    [ directories |-> {},
      trial_info |-> [d \in TrialDirs |-> NoFile],
      figure_files |-> {},
      experiment_info |-> NoFile,
      report |-> NoFile ]

\* the content of the experiment directory, as one record
Disk ==
    [ directories |-> directories,
      trial_info |-> trial_info,
      figure_files |-> figure_files,
      experiment_info |-> experiment_info,
      report |-> report ]

\* mutant: the directory is made anew
makedirs_anew(exists, content) == EmptyDir

\* os.makedirs(experiment_dir, exist_ok=True): an existing directory is
\* left as it is
makedirs(exists, content) == IF exists THEN content ELSE EmptyDir

\* no definitions file loaded
NoIterator == [num_trials |-> None]
\* load_definitions_of_experiment has returned nothing
NothingReturned == [returned |-> FALSE]
NoIteration ==
    /\ iterator = NoIterator
    /\ yielded = << >>
    /\ suggested = << >>
    /\ stops = 0
    /\ load_warnings = {}
    /\ loaded = NothingReturned

\* no stream and no definitions file
NoStream == NoIteration /\ definitions_file = NoFile

\* no MarkdownFileWriter has written a line
NoWriter == file_lines = << >>

\* the state after Experiment(research_attributes, directory, name,
\* description) was constructed over a directory that did not exist
InitExperiment(bases, names) ==
    /\ expPc = "created"
    /\ experiment_data \in
         { NewExperimentData(b, n, "description") : b \in bases, n \in names }
    /\ _figures = << >>
    /\ _evaluation_metrics = << >>
    /\ tstate = [o \in Objs |-> "absent"]
    /\ trial_data = [o \in Objs |-> NoTrial]
    /\ _already_runned = [o \in Objs |-> FALSE]
    /\ populated = [o \in Objs |-> FALSE]
    /\ last_close = "none"
    /\ directories = makedirs(FALSE, EmptyDir).directories
    /\ trial_info = makedirs(FALSE, EmptyDir).trial_info
    /\ figure_files = makedirs(FALSE, EmptyDir).figure_files
    /\ experiment_info = makedirs(FALSE, EmptyDir).experiment_info
    /\ report = makedirs(FALSE, EmptyDir).report
    /\ render_calls = 0
    /\ exc_info = NoExc
    /\ body_fault = None
    /\ raised = NoExc
    /\ constructions = 1
    /\ hp_warning = FALSE
    /\ sharing = {}

Init ==
    /\ InitExperiment({ << << "/" >>, << "r" >> >> }, { << "E", " ", "x" >> })
    /\ history_slot \in BOOLEAN
    /\ parent_slots = RequiredSlots
    /\ NoStream
    /\ NoWriter

\* ------------------------------------------------------- Trial operations
\* Trial._remove_trial, when the name is found: pop the first record so named
_remove_trial(trial_name) ==
    Pop(experiment_data.trials,
        IndexOf(trial_name, TrialNamesOf(experiment_data.trials)))

\* mutant: the close never re-raises the fault of its scope
RaiseNever(exc) == FALSE

\* Trial._raise_exception_if_any: does the close re-raise
_raise_exception_if_any(exc) == exc.type # None

\* mutant: the "already run, no new results" return is missing
ClosePolicyNoKeep(empty, already) ==
    IF empty /\ ~already THEN "skip_empty"
    ELSE IF already THEN "overwrite"
    ELSE "append"

\* mutant: the "produced no results" return is missing
ClosePolicyNoEmptySkip(empty, already) ==
    IF empty /\ already THEN "skip_old"
    ELSE IF already THEN "overwrite"
    ELSE "append"

\* The decision of Trial.__exit__ on a clean exit (trial.py:195-217)
ClosePolicy(empty, already) ==
    IF empty /\ already THEN "skip_old"
    ELSE IF empty THEN "skip_empty"
    ELSE IF already THEN "overwrite"
    ELSE "append"

\* transform_figures_to_files: saves every figure into the trial directory
\* and returns figure name -> file path
transform_figures_to_files(figs, dir) == [f \in DOMAIN figs |-> <<dir, f>>]

\* json.dump raises TypeError also with the hyperparameters set to None: a
\* metric value it rejects ("confusion" stands for a metric with one)
RetryRaisesTypeError(td) == "confusion" \in DOMAIN td.evaluation_metrics

\* json.dump(trial_data, f) raises TypeError
DumpRaisesTypeError(td) ==
    td.hyperparameters = "hp_object" \/ RetryRaisesTypeError(td)

\* trial_info.json opened for writing and left by a json.dump that raised
PartFile == [exists |-> TRUE, complete |-> FALSE]

\* mutant: the document is written as it is
WriteAsIs(td) == td

\* Trial._write_trial_data: the JSON document written; hyperparameters that
\* json.dump rejects (TypeError) are written as null
_write_trial_data(td) ==
    IF DumpRaisesTypeError(td)
    THEN [td EXCEPT !.hyperparameters = None]
    ELSE td

\* mutant: nothing is required of the parent
AssertNothing(slots) == TRUE

\* Trial._assert_required_experiment_attributes: passes iff the parent has
\* the attributes figures and evaluation_metrics
_assert_required_experiment_attributes(slots) == RequiredSlots \subseteq slots

\* Trial objects constructed and not yet closed
Live == { o \in Objs : tstate[o] # "absent" }

\* Trial.__init__
TrialInit(o, name, hyperparameters) ==
    /\ expPc = "open"
    /\ exc_info = NoExc
    /\ tstate[o] = "absent"
    /\ \A p \in Objs : p < o => tstate[p] # "absent"
    /\ Cardinality(Live) + Len(experiment_data.trials) < MaxTrials
    /\ IF _assert_required_experiment_attributes(parent_slots)
       THEN /\ trial_data' = [trial_data EXCEPT
                                ![o] = _init_trial_data(name, hyperparameters)]
            /\ directories' = directories \cup
                     {_make_trial_directory(normalize_trial_name(name))}
            /\ _already_runned' = [_already_runned EXCEPT
                                     ![o] = _check_if_already_runned(name)]
            /\ tstate' = [tstate EXCEPT ![o] = "created"]
            /\ UNCHANGED exc_info
       ELSE \* line 51 raises AttributeError: no Trial object comes to be
            /\ exc_info' = Exc("AttributeError", None)
            /\ UNCHANGED << trialVars, directories >>
    /\ last_close' = "none"
    /\ UNCHANGED << expPc, experiment_data, slotVars, outerVars, populated,
                    trial_info, figure_files, experimentFiles,
                    body_fault, raised >>

\* Trial.__enter__
TrialEnter(o) ==
    /\ expPc = "open"
    /\ exc_info = NoExc
    /\ tstate[o] = "created"
    /\ trial_data' = [trial_data EXCEPT ![o].start_time = "datetime"]
    /\ tstate' = [tstate EXCEPT ![o] = "open"]
    /\ last_close' = "none"
    /\ UNCHANGED << expPc, experiment_data, slotVars, outerVars,
                    _already_runned, populated, trialFiles, experimentFiles,
                    exc_info, body_fault, raised >>

\* Trial.__exit__: what the close of Trial object o does, as
\* [how, trials, info, saved, exc, warned, data]; data is self.trial_data
\* as the close leaves it
CloseResult(o) ==
    LET timed == [trial_data[o] EXCEPT !.duration = "duration"]
        trial_results == fetch_trial_results
        trial_name == timed.name
        decision == ClosePolicy(results_empty(trial_results), _already_runned[o])
        found == InSeq(trial_name, TrialNamesOf(experiment_data.trials))
        kept == IF decision = "overwrite"
                THEN _remove_trial(trial_name)
                ELSE experiment_data.trials
        kept_sharing ==
            IF decision = "overwrite"
            THEN PopPositions(sharing,
                     IndexOf(trial_name, TrialNamesOf(experiment_data.trials)))
            ELSE sharing
        metrics == copy([object |-> "slot",
                         entries |-> trial_results.evaluation_metrics])
        figs == transform_figures_to_files(trial_results.figures, timed.directory)
        saved == { <<timed.directory, f>> : f \in DOMAIN trial_results.figures }
        with_results == [timed EXCEPT !.figures = figs,
                            !.evaluation_metrics = metrics.entries]
        unchanged == [how |-> "", trials |-> experiment_data.trials,
                      info |-> trial_info, saved |-> {}, exc |-> exc_info,
                      warned |-> FALSE, data |-> timed, sharing |-> sharing]
    IN
    IF _raise_exception_if_any(exc_info)
    THEN \* abnormal exit: bare raise of the fault being handled
         [unchanged EXCEPT !.how = "aborted"]
    ELSE IF decision \in {"skip_old", "skip_empty"}
    THEN [unchanged EXCEPT !.how = decision]
    ELSE IF decision = "overwrite" /\ ~found
    THEN \* _remove_trial raises ValueError
         [unchanged EXCEPT !.how = "fault", !.exc = Exc("ValueError", None)]
    ELSE IF "training_history" \notin DOMAIN trial_results
    THEN \* trial_results["training_history"] raises KeyError, after the
         \* removal and after the figures were saved
         [how |-> "fault", trials |-> kept, info |-> trial_info,
          saved |-> saved, exc |-> Exc("KeyError", None), warned |-> FALSE,
          data |-> with_results, sharing |-> kept_sharing]
    ELSE LET final == [with_results EXCEPT
                          !.training_history = trial_results.training_history]
         IN IF RetryRaisesTypeError(final)
            THEN \* the json.dump of the except branch raises TypeError, after
                 \* the removal and before the append
                 [how |-> "fault", trials |-> kept,
                  info |-> [trial_info EXCEPT ![final.directory] = PartFile],
                  saved |-> saved, exc |-> Exc("TypeError", None),
                  warned |-> TRUE, data |-> final, sharing |-> kept_sharing]
            ELSE
            [how |-> decision, trials |-> experiment_trials_append(kept, final),
             info |-> [trial_info EXCEPT
                         ![final.directory] = _write_trial_data(final)],
             saved |-> saved, exc |-> exc_info,
             warned |-> DumpRaisesTypeError(final), data |-> final,
             sharing |-> kept_sharing
                 \cup IF metrics.object = "slot" THEN { Len(kept) + 1 } ELSE {}]

\* Trial.__exit__
TrialExit(o) ==
    /\ expPc = "open"
    /\ tstate[o] = "open"
    /\ LET r == CloseResult(o)
       IN /\ experiment_data' = [experiment_data EXCEPT !.trials = r.trials]
          /\ trial_info' = r.info
          /\ figure_files' = figure_files \cup r.saved
          /\ exc_info' = r.exc
          /\ last_close' = r.how
          /\ hp_warning' = r.warned
          /\ sharing' = r.sharing
    /\ tstate' = [tstate EXCEPT ![o] = "absent"]
    /\ trial_data' = [trial_data EXCEPT ![o] = NoTrial]
    /\ _already_runned' = [_already_runned EXCEPT ![o] = FALSE]
    /\ populated' = [populated EXCEPT ![o] = FALSE]
    /\ UNCHANGED << expPc, slotVars, history_slot, parent_slots,
                    constructions, streamVars, writerVars, directories,
                    experimentFiles, body_fault, raised >>

\* ---------------------------------------------------- the producer's code
\* the producer reports results from inside a trial scope
InTrialScope == \E o \in Objs : tstate[o] = "open"

\* a slot was given a non-empty value while the trial's scope was open
Populate(value) ==
    [o \in Objs |-> populated[o] \/ (tstate[o] = "open" /\ value # << >>)]

\* experiment.evaluation_metrics = m: the slot is given another mapping
set_evaluation_metrics(m) ==
    /\ expPc = "open"
    /\ exc_info = NoExc
    /\ InTrialScope
    /\ m # _evaluation_metrics
    /\ _evaluation_metrics' = m
    /\ sharing' = {}
    /\ populated' = Populate(m)
    /\ last_close' = "none"
    /\ UNCHANGED << expPc, experiment_data, _figures, parentVars, trialVars,
                    trialFiles, experimentFiles, exc_info, body_fault, raised >>

\* experiment._evaluation_metrics.update(m): the slot's mapping is changed
\* in place, and with it every record that holds this mapping
update_evaluation_metrics(m) ==
    /\ expPc = "open"
    /\ exc_info = NoExc
    /\ InTrialScope
    /\ LET updated == [k \in DOMAIN _evaluation_metrics \cup DOMAIN m |->
                         IF k \in DOMAIN m THEN m[k] ELSE _evaluation_metrics[k]]
       IN /\ updated # _evaluation_metrics
          /\ _evaluation_metrics' = updated
          /\ experiment_data' =
                [experiment_data EXCEPT !.trials =
                    [i \in DOMAIN experiment_data.trials |->
                        IF i \in sharing
                        THEN [experiment_data.trials[i] EXCEPT
                                 !.evaluation_metrics = updated]
                        ELSE experiment_data.trials[i]]]
          /\ populated' = Populate(updated)
    /\ last_close' = "none"
    /\ UNCHANGED << expPc, _figures, outerVars, trialVars,
                    trialFiles, experimentFiles, exc_info, body_fault, raised >>

\* experiment.figures = f
set_figures(f) ==
    /\ expPc = "open"
    /\ exc_info = NoExc
    /\ InTrialScope
    /\ f # _figures
    /\ _figures' = f
    /\ populated' = Populate(f)
    /\ last_close' = "none"
    /\ UNCHANGED << expPc, experiment_data, _evaluation_metrics, outerVars,
                    trialVars, trialFiles, experimentFiles, exc_info,
                    body_fault, raised >>

\* the code inside the scopes raises a fault
BodyRaise(t) ==
    /\ expPc = "open"
    /\ exc_info = NoExc
    /\ exc_info' = Exc(t, None)
    /\ body_fault' = t
    /\ last_close' = "none"
    /\ UNCHANGED << expPc, experiment_data, slotVars, outerVars, trialVars,
                    populated, trialFiles, experimentFiles, raised >>

\* ------------------------------------------------- Experiment operations
\* the sort key: x["evaluation_metrics"]["accuracy"]
HasSortKey(x) == "accuracy" \in DOMAIN x.evaluation_metrics
SortKey(x) == x.evaluation_metrics["accuracy"]

\* list.sort(key, reverse=True) is stable: an element goes behind every
\* element whose key is not smaller
InsertDesc(sorted, x) ==
    LET n == Cardinality({ i \in DOMAIN sorted : SortKey(sorted[i]) >= SortKey(x) })
    IN SubSeq(sorted, 1, n) \o << x >> \o SubSeq(sorted, n + 1, Len(sorted))

RECURSIVE SortDesc(_)
SortDesc(ts) ==
    IF ts = << >> THEN << >>
    ELSE InsertDesc(SortDesc(SubSeq(ts, 1, Len(ts) - 1)), ts[Len(ts)])

\* Experiment._sort_trials, when every key lookup succeeds
_sort_trials(ts) == IF ts = << >> THEN ts ELSE SortDesc(ts)

\* where the record at position p of ts is after _sort_trials
SortedPosition(ts, p) ==
    Cardinality({ i \in DOMAIN ts :
                    \/ SortKey(ts[i]) > SortKey(ts[p])
                    \/ SortKey(ts[i]) = SortKey(ts[p]) /\ i <= p })

\* mutant: the dict is written as it is
WriteWithTrials(data) == data

\* Experiment._write_experiment_data: experiment_data without "trials"
_write_experiment_data(data) ==
    [k \in (DOMAIN data) \ {"trials"} |-> data[k]]

\* create_experiment_report reads trial["description"] of every trial
RenderFaults(ts) == \E i \in DOMAIN ts : "description" \notin DOMAIN ts[i]

\* create_experiment_report: the report, one section per trial
create_experiment_report(data) ==
    [name |-> data.name, sections |-> TrialNamesOf(data.trials)]

\* Experiment.__enter__
ExperimentEnter ==
    /\ expPc = "created"
    /\ expPc' = "open"
    /\ experiment_data' = [experiment_data EXCEPT !.start_time = "datetime"]
    /\ UNCHANGED << slotVars, outerVars, trialVars, populated, last_close,
                    trialFiles, experimentFiles, exc_info, body_fault, raised >>

\* mutant: the exit does not look at the fault of its scope
ExitRaisesNever(exc) == FALSE

\* Experiment.__exit__, line 122: if exc_type is not None: raise
ExitRaises(exc) == exc.type # None

\* Experiment.__exit__
ExperimentExit ==
    /\ expPc = "open"
    /\ \A o \in Objs : tstate[o] # "open"
    /\ LET timed == [experiment_data EXCEPT !.duration = "duration"]
           sorted == [timed EXCEPT !.trials = _sort_trials(timed.trials)]
       IN
       IF ExitRaises(exc_info)
       THEN \* raise ExperimentError(msg) from exc_type(exc_value)
            /\ experiment_data' = timed
            /\ expPc' = "faulted"
            /\ raised' = Exc("ExperimentError", exc_info.type)
            /\ UNCHANGED << experimentFiles, sharing >>
       ELSE IF \E i \in DOMAIN timed.trials : ~HasSortKey(timed.trials[i])
       THEN \* the key function raises KeyError: the list is left as it was
            /\ experiment_info' = _write_experiment_data(timed)
            /\ experiment_data' = timed
            /\ expPc' = "faulted"
            /\ raised' = Exc("KeyError", None)
            /\ UNCHANGED << report, render_calls, sharing >>
       ELSE IF RenderFaults(sorted.trials)
       THEN \* trial["description"] raises KeyError before the report is saved
            /\ experiment_info' = _write_experiment_data(timed)
            /\ experiment_data' = sorted
            /\ sharing' = { SortedPosition(timed.trials, p) : p \in sharing }
            /\ render_calls' = render_calls + 1
            /\ expPc' = "faulted"
            /\ raised' = Exc("KeyError", None)
            /\ UNCHANGED report
       ELSE /\ experiment_info' = _write_experiment_data(timed)
            /\ experiment_data' = sorted
            /\ sharing' = { SortedPosition(timed.trials, p) : p \in sharing }
            /\ render_calls' = render_calls + 1
            /\ report' = create_experiment_report(sorted)
            /\ expPc' = "closed"
            /\ UNCHANGED raised
    /\ UNCHANGED << slotVars, parentVars, trialVars, populated, last_close,
                    trialFiles, exc_info, body_fault >>

\* the parameters of Trial.__init__, self included
TrialInitParams == << "self", "experiment", "name", "hyperparameters" >>

\* a call binds its positional arguments iff there is a parameter for each
Binds(params, args) == Len(args) = Len(params)

Descriptions == { "trial description" }

\* Experiment.trial: return Trial(self, name, description, hyperparameters).
\* A call that does not bind raises TypeError before the first statement
\* of Trial.__init__.
trial(name, description, hyperparameters) ==
    /\ expPc = "open"
    /\ exc_info = NoExc
    /\ IF Binds(TrialInitParams,
                << "trial", "experiment", name, description, hyperparameters >>)
       THEN \E o \in Objs : TrialInit(o, name, hyperparameters)
       ELSE /\ exc_info' = Exc("TypeError", None)
            /\ last_close' = "none"
            /\ UNCHANGED << expPc, experiment_data, slotVars, outerVars,
                            trialVars, populated, trialFiles,
                            experimentFiles, body_fault, raised >>

\* Experiment.__init__ of a further Experiment object over the experiment
\* directory, after the scope of the one before has ended
ExperimentInit(directory, name) ==
    /\ expPc \in {"closed", "faulted"}
    /\ Live = {}
    /\ constructions < MaxConstructions
    /\ constructions' = constructions + 1
    /\ expPc' = "created"
    /\ experiment_data' = NewExperimentData(directory, name, "description")
    /\ _figures' = << >>
    /\ _evaluation_metrics' = << >>
    /\ LET disk == makedirs(constructions > 0, Disk)
       IN /\ directories' = disk.directories
          /\ trial_info' = disk.trial_info
          /\ figure_files' = disk.figure_files
          /\ experiment_info' = disk.experiment_info
          /\ report' = disk.report
    /\ exc_info' = NoExc
    /\ body_fault' = None
    /\ raised' = NoExc
    /\ last_close' = "none"
    /\ hp_warning' = FALSE
    /\ sharing' = {}
    /\ UNCHANGED << history_slot, parent_slots, streamVars, writerVars,
                    trialVars, populated, render_calls >>

Next ==
    \/ ExperimentEnter
    \/ \E m \in MetricDicts : set_evaluation_metrics(m)
    \/ \E f \in FigureDicts : set_figures(f)
    \/ \E t \in BodyFaults : BodyRaise(t)
    \/ \E o \in Objs, n \in TrialNames, h \in HyperSet : TrialInit(o, n, h)
    \/ \E o \in Objs : TrialEnter(o)
    \/ \E o \in Objs : TrialExit(o)
    \/ ExperimentExit

Spec == Init /\ [][Next]_vars

\* ---- trials opened on any parent, with any hyperparameters, also through
\* ---- Experiment.trial
HyperAll == HyperSet \cup { "hp_object" }

\* the inputs of the specifications below: one trial name, and no metrics
\* or one accuracy score
OneTrialName == { << "T", " ", "a" >> }
FewMetricDicts == { << >>, Put(<< >>, "accuracy", 1) }

InitOpen ==
    /\ InitExperiment({ << << "/" >>, << "r" >> >> }, { << "E", " ", "x" >> })
    /\ history_slot \in BOOLEAN
    /\ parent_slots \in SUBSET RequiredSlots
    /\ NoStream
    /\ NoWriter

NextOpen ==
    \/ ExperimentEnter
    \/ \E m \in FewMetricDicts : set_evaluation_metrics(m)
    \/ \E o \in Objs, n \in OneTrialName, h \in HyperAll : TrialInit(o, n, h)
    \/ \E n \in OneTrialName, d \in Descriptions, h \in HyperAll : trial(n, d, h)
    \/ \E o \in Objs : TrialEnter(o)
    \/ \E o \in Objs : TrialExit(o)
    \/ ExperimentExit

SpecOpen == InitOpen /\ [][NextOpen]_vars

\* ---- one experiment directory, Experiment objects constructed over it
\* ---- one after the other
InitRerun ==
    /\ InitExperiment(BasePaths, ExperimentNames)
    /\ history_slot = TRUE
    /\ parent_slots = RequiredSlots
    /\ NoStream
    /\ NoWriter

NextRerun ==
    \/ ExperimentEnter
    \/ \E m \in FewMetricDicts : set_evaluation_metrics(m)
    \/ \E o \in Objs, n \in OneTrialName, h \in HyperSet : TrialInit(o, n, h)
    \/ \E o \in Objs : TrialEnter(o)
    \/ \E o \in Objs : TrialExit(o)
    \/ ExperimentExit
    \/ \E b \in BasePaths, n \in ExperimentNames : ExperimentInit(b, n)

SpecRerun == InitRerun /\ [][NextRerun]_vars
\* ------------------------------------------- load_definitions_of_experiment
\* str(k) of a natural number, as its decimal digits
DigitChar(d) ==
    CASE d = 0 -> "0" [] d = 1 -> "1" [] d = 2 -> "2" [] d = 3 -> "3"
      [] d = 4 -> "4" [] d = 5 -> "5" [] d = 6 -> "6" [] d = 7 -> "7"
      [] d = 8 -> "8" [] d = 9 -> "9"

RECURSIVE IntToStr(_)
IntToStr(k) ==
    IF k < 10 THEN << DigitChar(k) >>
    ELSE IntToStr(k \div 10) \o << DigitChar(k % 10) >>

\* the values of a generator configuration in definitions.json
NumTrialsValues == { -1, 0, 1, 3, 10 }
Prefixes == { << "r", "u", "n" >> }
HParamsConfigs == { "hparams_configs" }
ExtraKeys == { "seed" }

\* the hyperparameters suggester.suggest_next() returns
Suggestions == { "hp_1", "hp_2" }

\* the dicts over S extended by key k with a value of V, or left without it
Optional(S, k, V) == S \cup { Put(d, k, v) : d \in S, v \in V }

\* trials_definitions given as a dict
GeneratorConfigs ==
    Optional(Optional(Optional(Optional({ << >> },
        "num_trials", NumTrialsValues), "prefix", Prefixes),
        "hparams_configs", HParamsConfigs), "seed", ExtraKeys)

\* dict.pop(k, default): the value
PopOr(d, k, default) == IF k \in DOMAIN d THEN d[k] ELSE default

DefaultNumTrials == 1
DefaultPrefix == << "t", "r", "i", "a", "l", "_" >>

\* _TrialsDefinitionsIterator.__init__
NewIterator(suggester, num_trials, prefix) ==
    [ suggester |-> suggester, num_trials |-> num_trials, prefix |-> prefix,
      trial_count |-> 0 ]

\* the keys _process_trials_definitions pops from a dict
GeneratorKeys == { "num_trials", "prefix", "hparams_configs" }

\* mutant: no key is left over
UnrecognizedNone(trials_definitions) == {}

\* the keys left in trials_definitions after the pops: a warning for each
Unrecognized(trials_definitions) == (DOMAIN trials_definitions) \ GeneratorKeys

\* _process_trials_definitions, the dict branch: what it raises, warns about
\* and returns
ProcessDict(trials_definitions) ==
    LET num_trials == PopOr(trials_definitions, "num_trials", DefaultNumTrials)
        prefix == PopOr(trials_definitions, "prefix", DefaultPrefix)
        hparams_configs == PopOr(trials_definitions, "hparams_configs", None)
        rest == Unrecognized(trials_definitions)
    IN IF hparams_configs = None
       THEN \* assert hparams_configs is not None
            /\ exc_info' = Exc("AssertionError", None)
            /\ UNCHANGED << iterator, load_warnings >>
       ELSE /\ load_warnings' = rest
            /\ iterator' = NewIterator(hparams_configs, num_trials, prefix)
            /\ UNCHANGED exc_info

\* _process_trials_definitions on a dict
ProcessGeneratorConfig(trials_definitions) ==
    /\ iterator = NoIterator
    /\ exc_info = NoExc
    /\ ProcessDict(trials_definitions)
    /\ UNCHANGED << expPc, experiment_data, slotVars, history_slot,
                    parent_slots, constructions, hp_warning, sharing, yielded,
                    suggested, stops,
                    loaded, definitions_file, writerVars, trialVars, populated, last_close, diskVars, render_calls,
                    body_fault, raised >>

\* the iterator is a _TrialsDefinitionsIterator
IsGenerator(it) == "trial_count" \in DOMAIN it

\* mutant: the ordinal starts at zero
TrialNameFromZero(prefix, trial_count) == prefix \o IntToStr(trial_count - 1)

\* name = f"{self.prefix}{self.trial_count}"
TrialName(prefix, trial_count) == prefix \o IntToStr(trial_count)

\* mutant: suggest_next is called before the test for the end
SuggestedBeforeTest(calls, hparams) == Append(calls, hparams)

\* the suggest_next calls after a __next__ that raises StopIteration: the
\* raise comes before the call, so no call is made
SuggestedAtStop(calls, hparams) == calls

\* _TrialsDefinitionsIterator.__next__, suggest_next() returning hparams
IteratorNext(hparams) ==
    /\ IsGenerator(iterator)
    /\ IF iterator.trial_count = iterator.num_trials
       THEN \* raise StopIteration
            /\ stops < MaxStops
            /\ stops' = stops + 1
            /\ suggested' = SuggestedAtStop(suggested, hparams)
            /\ UNCHANGED << iterator, yielded >>
       ELSE /\ iterator.trial_count < MaxCount
            /\ iterator' = [iterator EXCEPT !.trial_count = @ + 1]
            /\ suggested' = Append(suggested, hparams)
            /\ yielded' = Append(yielded,
                  [ name |-> TrialName(iterator.prefix, iterator.trial_count + 1),
                    hyperparameters |-> hparams ])
            /\ UNCHANGED stops
    /\ UNCHANGED << expPc, experiment_data, slotVars, history_slot,
                    parent_slots, constructions, hp_warning, sharing,
                    load_warnings,
                    loaded, definitions_file, writerVars, trialVars, populated,
                    last_close, diskVars, render_calls,
                    exc_info, body_fault, raised >>

NextStream ==
    \/ \E c \in GeneratorConfigs : ProcessGeneratorConfig(c)
    \/ \E h \in Suggestions : IteratorNext(h)

SpecStream == Init /\ [][NextStream]_vars

\* -------------------------------------- results that json.dump rejects
DumpMetricDicts ==
    FewMetricDicts
    \cup { Put(Put(<< >>, "accuracy", 1), "confusion", "ndarray") }

InitDump ==
    /\ InitExperiment({ << << "/" >>, << "r" >> >> }, { << "E", " ", "x" >> })
    /\ history_slot = TRUE
    /\ parent_slots = RequiredSlots
    /\ NoStream
    /\ NoWriter

NextDump ==
    \/ ExperimentEnter
    \/ \E m \in DumpMetricDicts : set_evaluation_metrics(m)
    \/ \E o \in Objs, n \in OneTrialName, h \in HyperSet : TrialInit(o, n, h)
    \/ \E o \in Objs : TrialEnter(o)
    \/ \E o \in Objs : TrialExit(o)
    \/ ExperimentExit

SpecDump == InitDump /\ [][NextDump]_vars

\* ------------------------------------ results reported by update in place
InitSnapshot ==
    /\ InitExperiment({ << << "/" >>, << "r" >> >> }, { << "E", " ", "x" >> })
    /\ history_slot = TRUE
    /\ parent_slots = RequiredSlots
    /\ NoStream
    /\ NoWriter

NextSnapshot ==
    \/ ExperimentEnter
    \/ \E m \in MetricDicts : set_evaluation_metrics(m)
    \/ \E m \in MetricDicts : update_evaluation_metrics(m)
    \/ \E f \in FigureDicts : set_figures(f)
    \/ \E o \in Objs, n \in OneTrialName, h \in HyperSet : TrialInit(o, n, h)
    \/ \E o \in Objs : TrialEnter(o)
    \/ \E o \in Objs : TrialExit(o)
    \/ ExperimentExit

SpecSnapshot == InitSnapshot /\ [][NextSnapshot]_vars

\* --------------------------------------------- trial names that are paths
InitPaths ==
    /\ InitExperiment({ << << "/" >>, << "r" >> >> }, { << "E", " ", "x" >> })
    /\ history_slot = TRUE
    /\ parent_slots = RequiredSlots
    /\ NoStream
    /\ NoWriter

NextPaths ==
    \/ ExperimentEnter
    \/ \E m \in FewMetricDicts : set_evaluation_metrics(m)
    \/ \E o \in Objs, n \in OneTrialName \cup PathTrialNames, h \in HyperSet :
          TrialInit(o, n, h)
    \/ \E o \in Objs : TrialEnter(o)
    \/ \E o \in Objs : TrialExit(o)
    \/ ExperimentExit

SpecPaths == InitPaths /\ [][NextPaths]_vars

\* ------------------------------------------- a Trial object used again
\* The caller keeps the Trial object after its scope has closed
\* (with experiment.trial(...) as t) and may use it in a with statement
\* again.  One Trial object is constructed, so every entry of the
\* collection is this object's trial_data dict: line 229 appends the dict
\* itself, and what __exit__ assigns to it shows in every entry.
TheTrial == 1

\* Trial.__enter__ on an object whose scope has closed before
TrialReenter(o) ==
    /\ expPc = "open"
    /\ exc_info = NoExc
    /\ tstate[o] = "closed"
    /\ Len(experiment_data.trials) < MaxTrials
    /\ trial_data' = [trial_data EXCEPT ![o].start_time = "datetime"]
    /\ tstate' = [tstate EXCEPT ![o] = "open"]
    /\ last_close' = "none"
    /\ UNCHANGED << expPc, experiment_data, slotVars, outerVars,
                    _already_runned, populated, trialFiles, experimentFiles,
                    exc_info, body_fault, raised >>

\* Trial.__exit__ of the one Trial object, which its caller keeps
TrialExitRetained(o) ==
    /\ expPc = "open"
    /\ tstate[o] = "open"
    /\ LET r == CloseResult(o)
       IN /\ experiment_data' = [experiment_data EXCEPT
                                   !.trials = [i \in DOMAIN r.trials |-> r.data]]
          /\ trial_info' = r.info
          /\ figure_files' = figure_files \cup r.saved
          /\ exc_info' = r.exc
          /\ last_close' = r.how
          /\ hp_warning' = r.warned
          /\ sharing' = r.sharing
          /\ trial_data' = [trial_data EXCEPT ![o] = r.data]
    /\ tstate' = [tstate EXCEPT ![o] = "closed"]
    /\ UNCHANGED << expPc, slotVars, history_slot, parent_slots,
                    constructions, streamVars, writerVars, directories,
                    experimentFiles, body_fault, raised, _already_runned,
                    populated >>

InitReenter ==
    /\ InitExperiment({ << << "/" >>, << "r" >> >> }, { << "E", " ", "x" >> })
    /\ history_slot = TRUE
    /\ parent_slots = RequiredSlots
    /\ NoStream
    /\ NoWriter

NextReenter ==
    \/ ExperimentEnter
    \/ \E m \in MetricDicts : set_evaluation_metrics(m)
    \/ \E f \in FigureDicts : set_figures(f)
    \/ \E n \in TrialNames, h \in HyperSet : TrialInit(TheTrial, n, h)
    \/ TrialEnter(TheTrial)
    \/ TrialReenter(TheTrial)
    \/ TrialExitRetained(TheTrial)
    \/ ExperimentExit

SpecReenter == InitReenter /\ [][NextReenter]_vars

\* ---------------------------------------------------- MarkdownFileWriter
\* A line is a sequence of pieces of text; a path is written into a line
\* character by character, its components separated by "/".
MaxLines == 2

\* os.path.dirname of a path
dirname(p) == SubSeq(p, 1, Len(p) - 1)

\* report_path = join(experiment_data["directory"], "experiment_report.md")
report_path == Append(experiment_data.directory, << "experiment_report.md" >>)

\* MarkdownFileWriter.__init__: self.file_dir
file_dir == dirname(report_path)

\* the number of leading components two paths share
RECURSIVE CommonPrefix(_, _)
CommonPrefix(p, q) ==
    IF p = << >> \/ q = << >> \/ Head(p) # Head(q) THEN 0
    ELSE 1 + CommonPrefix(Tail(p), Tail(q))

\* os.path.relpath(path, start): up from start to the last directory it
\* shares with path, then down to path
relpath(path, start) ==
    LET p == Resolve(abspath(path))
        q == Resolve(abspath(start))
        c == CommonPrefix(p, q)
        rel == [i \in 1..(Len(q) - c) |-> << ".", "." >>] \o SubSeq(p, c + 1, Len(p))
    IN IF rel = << >> THEN << << "." >> >> ELSE rel

\* a relative path as a string: "/".join(components)
RECURSIVE JoinPath(_)
JoinPath(p) ==
    IF p = << >> THEN << >>
    ELSE IF Len(p) = 1 THEN p[1]
    ELSE p[1] \o << "/" >> \o JoinPath(Tail(p))

\* MarkdownFileWriter.create_link
create_link(path, hyperlink_text) ==
    LET relative_path == relpath(path, file_dir)
        link == << ".", "/" >> \o JoinPath(relative_path)
    IN << "[", hyperlink_text, "](" >> \o link \o << ")" >>

\* what the callers of the writer give it
Titles == { << "T", " ", "a" >> }
Levels == { 1, 2 }
Texts == { "text" }
LinkTargets ==
    { experiment_data.directory,
      Append(experiment_data.directory, << "t", "_", "a" >>),
      experiment_data.directory \o << << "t", "_", "a" >>, << "fig" >> >>,
      os_path_join(experiment_data.directory, << ".", ".", "/", "x" >>) }

\* self.file_lines.append(line), everything else left as it is
AppendLine(line) ==
    /\ Len(file_lines) < MaxLines
    /\ file_lines' = Append(file_lines, line)
    /\ UNCHANGED << expPc, experiment_data, slotVars, history_slot,
                    parent_slots, constructions, hp_warning, sharing,
                    streamVars,
                    trialVars, populated, last_close, diskVars, render_calls,
                    exc_info, body_fault, raised >>

\* MarkdownFileWriter.write_title: f"{'#' * level} {title}\n"
write_title(title, level) ==
    AppendLine([i \in 1..level |-> "#"] \o << " " >> \o title \o << "\n" >>)

\* MarkdownFileWriter.write_text: f"{text}\n"
write_text(text) == AppendLine(<< text, "\n" >>)

\* MarkdownFileWriter.write_key_value: f"*    {key}: {value}\n"
write_key_value(key, value) == AppendLine(<< "*    ", key, ": ", value, "\n" >>)

\* MarkdownFileWriter.write_figure: f"!{figure_link}\n"
write_figure(figure_name, path) ==
    AppendLine(<< "!" >> \o create_link(path, figure_name) \o << "\n" >>)

\* "\n".join(lines)
RECURSIVE JoinLines(_)
JoinLines(lines) ==
    IF lines = << >> THEN << >>
    ELSE IF Len(lines) = 1 THEN lines[1]
    ELSE lines[1] \o << "\n" >> \o JoinLines(Tail(lines))

\* mutant: the file is opened for appending
FileAppended(file, text) ==
    [exists |-> TRUE,
     content |-> IF file.exists THEN file.content \o text ELSE text]

\* open(file_path, "w") and file.write(text): the file after it
FileWritten(file, text) == [exists |-> TRUE, content |-> text]

\* MarkdownFileWriter.save_file
save_file ==
    /\ report' = FileWritten(report, JoinLines(file_lines))
    /\ UNCHANGED << expPc, experiment_data, slotVars, outerVars, trialVars,
                    populated, last_close, trialFiles, experiment_info,
                    render_calls, exc_info, body_fault, raised >>

\* MarkdownFileWriter.clear_file
clear_file ==
    /\ file_lines' = << >>
    /\ UNCHANGED << expPc, experiment_data, slotVars, history_slot,
                    parent_slots, constructions, hp_warning, sharing,
                    streamVars,
                    trialVars, populated, last_close, diskVars, render_calls,
                    exc_info, body_fault, raised >>

InitWriter ==
    /\ InitExperiment({ << << "/" >>, << "r" >> >> }, { << "E", " ", "x" >> })
    /\ history_slot = TRUE
    /\ parent_slots = RequiredSlots
    /\ NoStream
    /\ NoWriter

NextWriter ==
    \/ \E title \in Titles, level \in Levels : write_title(title, level)
    \/ \E text \in Texts : write_text(text)
    \/ \E key \in Texts, value \in Texts : write_key_value(key, value)
    \/ \E name \in Texts, path \in LinkTargets : write_figure(name, path)
    \/ save_file
    \/ clear_file

SpecWriter == InitWriter /\ [][NextWriter]_vars

\* ------------------------------------------------- the definitions file
MaxListLen == 2

\* experiment_definitions: any of the expected keys, and a key nobody expects
ExperimentDefinitions ==
    Optional(Optional(Optional(Optional({ << >> },
        "name", ExperimentNames), "description", Descriptions),
        "directory", { << << "r" >> >> }), "author", { "author" })

\* the elements of trials_definitions given as a list
ListElements ==
    Optional(Optional(Optional({ << >> },
        "name", TrialNames), "hyperparameters", HyperSet),
        "comment", { "comment" })

Lists == UNION { [1..n -> ListElements] : n \in 0..MaxListLen }

\* trials_definitions: a list, a dict, or a JSON value that is neither
TrialsDefinitions ==
    { [kind |-> "list", items |-> l] : l \in Lists }
    \cup { [kind |-> "dict", config |-> c] : c \in GeneratorConfigs }
    \cup { [kind |-> "other", text |-> "text"] }

\* the JSON documents: any of the two sections, and a third key
Definitions ==
    Optional(Optional(Optional({ << >> },
        "experiment_definitions", ExperimentDefinitions),
        "trials_definitions", TrialsDefinitions), "notes", { "notes" })

\* what is at definitions_json: nothing, or a document
DefinitionsFiles ==
    { NoFile } \cup { [exists |-> TRUE, definitions |-> d] : d \in Definitions }

\* mutant: nothing is expected of experiment_definitions
ExpectNoKeys(experiment_definitions) == TRUE

\* _assert_experiment_definitions: passes iff the three keys are there
_assert_experiment_definitions(experiment_definitions) ==
    \A key \in { "name", "description", "directory" } :
        key \in DOMAIN experiment_definitions

\* mutant: the expected keys only have to be there
HasExpectedKeys(element) == { "name", "hyperparameters" } \subseteq DOMAIN element

\* set(trial.keys()) == expected_keys, for one element of the list
ExpectedKeys(element) == DOMAIN element = { "name", "hyperparameters" }

\* iter(trials_definitions)
ListIterator(items) == [items |-> items, pos |-> 0]
IsListIterator(it) == "items" \in DOMAIN it

\* a raise out of the load: nothing is returned
LoadRaises(t) ==
    /\ exc_info' = Exc(t, None)
    /\ UNCHANGED << iterator, load_warnings >>

\* _process_trials_definitions
_process_trials_definitions(trials_definitions) ==
    IF trials_definitions.kind = "list"
    THEN IF \A i \in DOMAIN trials_definitions.items :
                ExpectedKeys(trials_definitions.items[i])
         THEN /\ iterator' = ListIterator(trials_definitions.items)
              /\ UNCHANGED << exc_info, load_warnings >>
         ELSE LoadRaises("AssertionError")
    ELSE IF trials_definitions.kind = "dict"
    THEN ProcessDict(trials_definitions.config)
    ELSE \* msg += ... on a name never assigned
         LoadRaises("UnboundLocalError")

\* load_definitions_of_experiment(definitions_json), file being what is at
\* definitions_json
LoadFrom(file) ==
    /\ iterator = NoIterator
    /\ exc_info = NoExc
    /\ loaded = NothingReturned
    /\ IF ~file.exists
       THEN LoadRaises("FileNotFoundError") /\ UNCHANGED loaded
       ELSE LET definitions == file.definitions
            IN IF \/ Cardinality(DOMAIN definitions) # 2
                  \/ "experiment_definitions" \notin DOMAIN definitions
                  \/ "trials_definitions" \notin DOMAIN definitions
               THEN LoadRaises("AssertionError") /\ UNCHANGED loaded
               ELSE IF ~_assert_experiment_definitions(
                          definitions["experiment_definitions"])
               THEN LoadRaises("AssertionError") /\ UNCHANGED loaded
               ELSE /\ _process_trials_definitions(
                          definitions["trials_definitions"])
                    /\ loaded' = IF exc_info' = NoExc
                                 THEN [returned |-> TRUE,
                                       experiment_definitions |->
                                         definitions["experiment_definitions"]]
                                 ELSE NothingReturned
    /\ UNCHANGED << expPc, experiment_data, slotVars, history_slot,
                    parent_slots, constructions, hp_warning, sharing, yielded,
                    suggested, stops,
                    definitions_file, writerVars, trialVars, populated, last_close, diskVars,
                    render_calls, body_fault, raised >>

\* next() on the iterator of a list
ListNext ==
    /\ IsListIterator(iterator)
    /\ IF iterator.pos = Len(iterator.items)
       THEN \* StopIteration
            /\ stops < MaxStops
            /\ stops' = stops + 1
            /\ UNCHANGED << iterator, yielded >>
       ELSE /\ iterator' = [iterator EXCEPT !.pos = @ + 1]
            /\ yielded' = Append(yielded, iterator.items[iterator.pos + 1])
            /\ UNCHANGED stops
    /\ UNCHANGED << expPc, experiment_data, slotVars, history_slot,
                    parent_slots, constructions, hp_warning, sharing,
                    load_warnings,
                    suggested, loaded, definitions_file, writerVars, trialVars,
                    populated, last_close,
                    diskVars, render_calls, exc_info, body_fault, raised >>

load_definitions_of_experiment == LoadFrom(definitions_file)

\* an experiment was constructed, and there is any of the definitions files
InitLoad ==
    /\ InitExperiment({ << << "/" >>, << "r" >> >> }, { << "E", " ", "x" >> })
    /\ history_slot = TRUE
    /\ parent_slots = RequiredSlots
    /\ NoIteration
    /\ definitions_file \in DefinitionsFiles
    /\ NoWriter

NextLoad ==
    \/ load_definitions_of_experiment
    \/ \E h \in Suggestions : IteratorNext(h)
    \/ ListNext

SpecLoad == InitLoad /\ [][NextLoad]_vars

\* ------------------------------------------------------------ properties
trials == experiment_data.trials

\* the elements of a sequence
Range(s) == { s[i] : i \in DOMAIN s }

\* Trial object o closes in this step
Closes(o) == tstate[o] = "open" /\ tstate'[o] = "absent"

\* Trial object o closes in this step, its scope having exited cleanly
ClosesCleanly(o) == Closes(o) /\ exc_info = NoExc

\* the Experiment scope exits in this step
ExperimentCloses == expPc = "open" /\ expPc' # "open"

\* the close was a skip: no record touched, nothing written, no fault
Skipped ==
    /\ experiment_data' = experiment_data
    /\ trial_info' = trial_info
    /\ figure_files' = figure_files
    /\ exc_info' = NoExc

Count(name, ts) == Cardinality({ i \in DOMAIN ts : ts[i].name = name })

\* the records of ts not named `name`, in order
Others(name, ts) == LET Keep(x) == x.name # name IN SelectSeq(ts, Keep)

\* C1: the trial collection never holds two entries with the same name
C1_UniqueNames ==
    \A i, j \in DOMAIN trials : i # j => trials[i].name # trials[j].name

\* C2: a trial whose name is in the collection and that closes cleanly with
\* an empty result snapshot is skipped: the collection and every
\* trial_info.json stay as they were
C2_SkipKeepsOld ==
    [][\A o \in Objs :
         ( /\ ClosesCleanly(o)
           /\ InSeq(trial_data[o].name, TrialNamesOf(trials))
           /\ results_empty(fetch_trial_results) )
         => Skipped]_vars

C2_Witness ==
    /\ last_close = "skip_old"
    /\ Len(trials) >= 1
    /\ \E d \in TrialDirs : trial_info[d] # NoFile

\* C3: an already_run trial that closes cleanly with a non-empty snapshot
\* replaces the old record: one entry of its name, the new one, last; same
\* length; the other entries in their order
C3_OverwriteReplaces ==
    [][\A o \in Objs :
         ( /\ ClosesCleanly(o)
           /\ _already_runned[o]
           /\ ~results_empty(fetch_trial_results) )
         => LET T == trial_data[o].name
                after == experiment_data'.trials
            IN /\ exc_info' = NoExc
               /\ Len(after) = Len(trials)
               /\ Len(after) >= 1
               /\ Count(T, after) = 1
               /\ after[Len(after)].name = T
               /\ after[Len(after)].evaluation_metrics = _evaluation_metrics
               /\ Others(T, after) = Others(T, trials)]_vars

\* C4: a trial that is not already_run and closes cleanly with a non-empty
\* snapshot of the parent's accessor closes without a fault, writes
\* trial_info.json and appends its record
C4_FreshAppends ==
    [][\A o \in Objs :
         ( /\ ClosesCleanly(o)
           /\ ~_already_runned[o]
           /\ ~results_empty(fetch_trial_results) )
         => LET after == experiment_data'.trials
            IN /\ exc_info' = NoExc
               /\ trial_info'[trial_data[o].directory] # NoFile
               /\ Len(after) = Len(trials) + 1
               /\ SubSeq(after, 1, Len(trials)) = trials
               /\ after[Len(after)].name = trial_data[o].name]_vars

C6_UnpopulatedSkipped ==
    [][\A o \in Objs :
         (ClosesCleanly(o) /\ Live = {o} /\ ~populated[o])
         => (experiment_data' = experiment_data /\ trial_info' = trial_info)]_vars

\* descending by the sort key
Descending(ts) ==
    \A i, j \in DOMAIN ts : i < j => SortKey(ts[i]) >= SortKey(ts[j])

\* the records of ts with sort key k, in order
WithKey(k, ts) == LET Keep(x) == SortKey(x) = k IN SelectSeq(ts, Keep)

\* `after` is `before` stably sorted by descending accuracy
StablySorted(before, after) ==
    /\ Len(after) = Len(before)
    /\ \A i \in DOMAIN after : HasSortKey(after[i])
    /\ \A i \in DOMAIN before : HasSortKey(before[i])
    /\ Descending(after)
    /\ \A k \in AccValues : WithKey(k, after) = WithKey(k, before)

\* C7: after a clean experiment close the collection is the collection
\* before the close, stably sorted by descending accuracy
C7_SortedAfterClose ==
    [][(ExperimentCloses /\ exc_info = NoExc)
         => StablySorted(trials, experiment_data'.trials)]_vars

\* the same, for a close at which every retained trial has the sort key
SortedWhenKeyed ==
    [][( /\ ExperimentCloses
         /\ exc_info = NoExc
         /\ \A i \in DOMAIN trials : HasSortKey(trials[i]) )
         => StablySorted(trials, experiment_data'.trials)]_vars

C9_CaughtAsValueError ==
    (expPc = "faulted" /\ body_fault = "ValueError")
        => ("ValueError" \in Bases(raised.type) /\ raised.traceback)

\* C10: an abnormal trial exit re-raises the same fault, writes no
\* trial_info.json and leaves the collection alone; the experiment scope
\* then cannot close cleanly and writes neither its JSON nor a report
C10_TrialFaultPropagates ==
    [][ /\ \A o \in Objs :
             (Closes(o) /\ exc_info # NoExc)
             => /\ exc_info' = exc_info
                /\ trial_info' = trial_info
                /\ figure_files' = figure_files
                /\ experiment_data' = experiment_data
        /\ exc_info # NoExc
             => /\ expPc' # "closed"
                /\ experiment_info' = experiment_info
                /\ report' = report ]_vars

C10_Witness ==
    /\ last_close = "aborted"
    /\ expPc = "faulted"
    /\ raised.type = "ExperimentError"
    /\ raised.cause = body_fault
    /\ experiment_info = NoFile
    /\ report = NoFile
    /\ Len(trials) >= 1
    /\ _evaluation_metrics # << >>

\* an Experiment object is constructed over the directory in this step
Constructs == constructions' > constructions

\* the records of ts without their training history
WithoutHistory(ts) ==
    [i \in DOMAIN ts |->
        [k \in (DOMAIN ts[i]) \ {"training_history"} |-> ts[i][k]]]

\* C11: an experiment constructed over the directory of a previous
\* experiment has the trials the previous one recorded (training history
\* aside) in its collection
C11_ReloadsRecordedTrials ==
    [][Constructs
         => WithoutHistory(experiment_data'.trials) = WithoutHistory(trials)]_vars

InfoKeys == { "name", "description", "start_time", "duration", "directory" }

\* how often record x occurs in ts
Occurs(x, ts) == Cardinality({ i \in DOMAIN ts : ts[i] = x })

C14_InfoHasTrials ==
    experiment_info # NoFile
        => /\ {"start_time", "duration", "trials"} \subseteq DOMAIN experiment_info
           /\ experiment_info.name = experiment_data.name
           /\ experiment_info.description = experiment_data.description

TrialInfoKeys ==
    { "name", "description", "start_time", "duration", "directory",
      "hyperparameters", "figures", "evaluation_metrics" }

\* C15: every trial_info.json has the fields name, description, start_time,
\* duration, directory, hyperparameters, figures and evaluation_metrics,
\* and no training_history
C15_TrialInfoSchema ==
    \A d \in TrialDirs :
        trial_info[d] # NoFile
            => /\ TrialInfoKeys \subseteq DOMAIN trial_info[d]
               /\ "training_history" \notin DOMAIN trial_info[d]

\* the close of this step reached the persist step of Trial.__exit__
Persists == last_close' \in {"append", "overwrite"}

LacksSlot == ~(RequiredSlots \subseteq parent_slots)

\* C17: on a parent that lacks the figures slot or the evaluation_metrics
\* slot no step makes a trial directory, brings a Trial object to be or
\* touches the parent's slots or collection, and the fault a step raises
\* is the AttributeError of the check (or the TypeError of
\* Experiment.trial, raised before the check)
C17_RejectsBeforeTouching ==
    [][LacksSlot
         => /\ UNCHANGED << directories, trialVars, slotVars >>
            /\ experiment_data'.trials = trials
            /\ exc_info' # exc_info
                  => exc_info'.type \in {"AttributeError", "TypeError"}]_vars

C17_Witness ==
    /\ LacksSlot
    /\ exc_info.type = "AttributeError"
    /\ directories = {}
    /\ Live = {}
    /\ expPc = "open"

\* C18: opening a trial through Experiment.trial yields a Trial (it does
\* not fault), and the record of an entered Trial has a description and a
\* start_time
C18_TrialYieldsRecord ==
    /\ exc_info.type # "TypeError"
    /\ \A o \in Objs :
         tstate[o] = "open"
            => /\ "description" \in DOMAIN trial_data[o]
               /\ trial_data[o].start_time # None

\* C19: a clean exit of the experiment scope invokes the renderer exactly
\* once, after experiment_info.json was written and with the trials of
\* experiment_data in sorted order
C19_RenderedOnceAfterSort ==
    [][(ExperimentCloses /\ exc_info = NoExc)
         => /\ render_calls' = render_calls + 1
            /\ experiment_info' # NoFile
            /\ \A i \in DOMAIN trials : HasSortKey(experiment_data'.trials[i])
            /\ Descending(experiment_data'.trials)]_vars

\* the names trial_1, trial_2, trial_3
Trial123 ==
    << << "t", "r", "i", "a", "l", "_", "1" >>,
       << "t", "r", "i", "a", "l", "_", "2" >>,
       << "t", "r", "i", "a", "l", "_", "3" >> >>

\* the name `prefix` followed by the decimal numeral of k (k < 100)
Numbered(prefix, k) ==
    IF k < 10 THEN prefix \o << DigitChar(k) >>
    ELSE prefix \o << DigitChar(k \div 10), DigitChar(k % 10) >>

\* C20: a stream made from a generator configuration with num_trials = n
\* (n >= 0) and prefix p has yielded at most n descriptors, the k-th named
\* p followed by k; once it has signalled its end it has yielded exactly
\* n; with the default prefix and n = 3 the names are trial_1, trial_2,
\* trial_3
C20_GeneratorYieldsNumbered ==
    (iterator # NoIterator /\ iterator.num_trials >= 0)
        => /\ Len(yielded) = iterator.trial_count
           /\ Len(yielded) <= iterator.num_trials
           /\ \A k \in DOMAIN yielded :
                 yielded[k].name = Numbered(iterator.prefix, k)
           /\ stops > 0 => Len(yielded) = iterator.num_trials
           /\ (stops > 0 /\ iterator.num_trials = 3
                          /\ iterator.prefix = DefaultPrefix)
                 => TrialNamesOf(yielded) = Trial123

C20_Witness ==
    /\ iterator # NoIterator
    /\ iterator.num_trials = 3
    /\ iterator.prefix = DefaultPrefix
    /\ stops > 0
    /\ TrialNamesOf(yielded) = Trial123

\* C23: processing a generator configuration without hparams_configs
\* raises the AssertionError and makes no stream; with hparams_configs it
\* raises nothing whatever other keys there are, warns about each
\* unrecognized key, and the stream made has the num_trials, prefix and
\* hparams_configs of the configuration (or the defaults), as if the
\* unrecognized keys were not there
C23_ExtraKeysOnlyWarn ==
    [][\A c \in GeneratorConfigs :
         ProcessGeneratorConfig(c)
         => IF "hparams_configs" \notin DOMAIN c
            THEN /\ exc_info'.type = "AssertionError"
                 /\ iterator' = NoIterator
                 /\ yielded' = << >>
            ELSE /\ exc_info' = NoExc
                 /\ load_warnings' = (DOMAIN c) \ GeneratorKeys
                 /\ iterator' =
                      [ suggester |-> c.hparams_configs,
                        num_trials |-> IF "num_trials" \in DOMAIN c
                                       THEN c.num_trials ELSE DefaultNumTrials,
                        prefix |-> IF "prefix" \in DOMAIN c
                                   THEN c.prefix ELSE DefaultPrefix,
                        trial_count |-> 0 ]]_vars

\* a stream was made from a configuration with an unrecognized key, warned
\* about, and has yielded all it had to
C23_Witness ==
    /\ load_warnings = ExtraKeys
    /\ exc_info = NoExc
    /\ iterator # NoIterator
    /\ iterator.num_trials = 3
    /\ Len(yielded) = 3
    /\ stops > 0

\* ts with some entries removed and the others in their order
RECURSIVE IsSubSeq(_, _)
IsSubSeq(a, b) ==
    IF a = << >> THEN TRUE
    ELSE IF b = << >> THEN FALSE
    ELSE IF Head(a) = Head(b) THEN IsSubSeq(Tail(a), Tail(b))
    ELSE IsSubSeq(a, Tail(b))

\* C28: while the experiment stays open no step re-orders the collection:
\* a step leaves it as it is, or is the close of a trial scope after which
\* the entries that remain are in the order they had and the record of the
\* closing trial, if added, is the last one (so a replaced trial moves to
\* the end); only the step that closes the experiment may re-order
C28_InsertionOrder ==
    [][(expPc = "open" /\ expPc' = "open")
       => LET after == experiment_data'.trials
          IN \/ after = trials
             \/ \E o \in Objs :
                  /\ Closes(o)
                  /\ \/ /\ IsSubSeq(after, trials)
                        /\ Len(after) = Len(trials) - 1
                     \/ /\ Len(after) >= 1
                        /\ after[Len(after)].name = trial_data[o].name
                        /\ after[Len(after)].evaluation_metrics
                               = _evaluation_metrics
                        /\ IsSubSeq(SubSeq(after, 1, Len(after) - 1), trials)
                        /\ Len(after) - 1 >= Len(trials) - 1
                        /\ Len(after) - 1 = Len(trials)
                              => SubSeq(after, 1, Len(trials)) = trials]_vars

\* an open experiment whose collection is in the order of the closes and not
\* in the order of the score: a replaced trial is last, behind a trial with
\* a lower accuracy
C28_Witness ==
    /\ expPc = "open"
    /\ last_close = "overwrite"
    /\ Len(trials) = 2
    /\ \A i \in 1..2 : HasSortKey(trials[i])
    /\ SortKey(trials[1]) < SortKey(trials[2])
    /\ ~Descending(trials)

\* C29: the flag of a Trial object is set when the object is constructed,
\* to whether the collection then holds an entry with exactly its name; it
\* stays as it was set until the object closes; and the clean close decides
\* by the flag: skip keeping the old when set and nothing new, skip when not
\* set and nothing new, replace when set and new results, append when not
C29_FlagFixedAtOpen ==
    [][\A o \in Objs :
         /\ (tstate[o] = "absent" /\ tstate'[o] = "created")
            => _already_runned'[o]
                 = (\E i \in DOMAIN trials :
                        trials[i].name = trial_data'[o].name)
         /\ (tstate[o] # "absent" /\ tstate'[o] # "absent")
            => _already_runned'[o] = _already_runned[o]
         /\ ClosesCleanly(o)
            => LET empty == results_empty(fetch_trial_results)
               IN last_close' \in
                    IF _already_runned[o]
                    THEN IF empty THEN {"skip_old"} ELSE {"overwrite", "fault"}
                    ELSE IF empty THEN {"skip_empty"} ELSE {"append", "fault"}
      ]_vars

\* a trial was constructed with the name "T a" while the collection held
\* "t_a", whose directory is the same: its flag is not set
C29_Witness ==
    \E o \in Objs :
        /\ tstate[o] = "created"
        /\ trial_data[o].name = << "T", " ", "a" >>
        /\ \E i \in DOMAIN trials :
               /\ trials[i].name = << "t", "_", "a" >>
               /\ trials[i].directory = trial_data[o].directory
        /\ ~_already_runned[o]

\* the definitions file is one the load has to reject: absent, not two
\* top-level keys, a section missing, or an experiment descriptor without
\* name, description or directory
Malformed ==
    \/ ~definitions_file.exists
    \/ LET d == definitions_file.definitions
       IN \/ Cardinality(DOMAIN d) # 2
          \/ "experiment_definitions" \notin DOMAIN d
          \/ "trials_definitions" \notin DOMAIN d
          \/ \E k \in { "name", "description", "directory" } :
                k \notin DOMAIN d["experiment_definitions"]

\* the trials_definitions of the file
GivenTrials == definitions_file.definitions["trials_definitions"]

\* the load raised the fault of a malformed file, returned nothing and
\* created nothing
LoadFailed ==
    /\ exc_info'.type \in { "FileNotFoundError", "AssertionError" }
    /\ loaded' = NothingReturned
    /\ iterator' = NoIterator
    /\ yielded' = << >>
    /\ diskVars' = diskVars

\* C21: loading a malformed definitions file fails with FileNotFoundError
\* or AssertionError, returns nothing and creates nothing; a key more in
\* the experiment descriptor is no error: with a well-formed list of trials
\* the load returns the descriptor as it is in the file
C21_MalformedFileRejected ==
    [][load_definitions_of_experiment
       => /\ Malformed => LoadFailed
          /\ ( /\ ~Malformed
               /\ GivenTrials.kind = "list"
               /\ \A e \in Range(GivenTrials.items) :
                     DOMAIN e = { "name", "hyperparameters" } )
             => /\ exc_info' = NoExc
                /\ loaded'.returned
                /\ loaded'.experiment_definitions
                      = definitions_file.definitions["experiment_definitions"]
                /\ IsListIterator(iterator') ]_vars

\* a file whose experiment descriptor has a key more was loaded, and its
\* list of trials read to the end
C21_Witness ==
    /\ loaded.returned
    /\ "author" \in DOMAIN loaded.experiment_definitions
    /\ exc_info = NoExc
    /\ IsListIterator(iterator)
    /\ Len(yielded) = MaxListLen
    /\ stops > 0

\* C22: a list of trials loads iff every element has exactly the keys
\* name and hyperparameters; one other element fails the load with the
\* AssertionError, no stream made and nothing yielded; and the stream of a
\* list that loaded is the list: what was yielded is its first elements in
\* their order, and all of it once the stream has ended
C22_ListAllOrNothing ==
    [][/\ ( /\ load_definitions_of_experiment
            /\ ~Malformed
            /\ GivenTrials.kind = "list" )
            => LET l == GivenTrials.items
               IN IF \A i \in DOMAIN l : DOMAIN l[i] = { "name", "hyperparameters" }
                  THEN /\ exc_info' = NoExc
                       /\ iterator' = [items |-> l, pos |-> 0]
                       /\ yielded' = << >>
                  ELSE /\ exc_info'.type = "AssertionError"
                       /\ iterator' = NoIterator
                       /\ loaded' = NothingReturned
                       /\ yielded' = << >>
       /\ IsListIterator(iterator')
            => /\ yielded' = SubSeq(iterator'.items, 1, iterator'.pos)
               /\ stops' > 0 => yielded' = iterator'.items
               /\ IsListIterator(iterator) => iterator'.items = iterator.items
      ]_vars

\* a list of two elements was loaded and read to the end, in its order
C22_Witness ==
    /\ IsListIterator(iterator)
    /\ Len(iterator.items) = 2
    /\ iterator.items[1].name # iterator.items[2].name
    /\ yielded = iterator.items
    /\ stops > 0

\* the scope of Trial object o closes in this step, not for the first time
ClosesAgain(o) ==
    /\ tstate[o] = "open"
    /\ trial_data[o].duration # None
    /\ tstate'[o] = "closed"

\* C24: the second close of a Trial object has no effect: no entry is added
\* to the collection and no trial_info.json is written
C24_ClosedStaysClosed ==
    [][\A o \in Objs :
         ClosesAgain(o)
         => /\ Len(experiment_data'.trials) = Len(trials)
            /\ last_close' \notin { "append", "overwrite" }]_vars

\* the directory reached by path p is root or below it
Inside(p, root) ==
    LET q == Resolve(p)
        r == Resolve(root)
    IN Len(q) >= Len(r) /\ SubSeq(q, 1, Len(r)) = r

\* the path of the trial directory named d
TrialPath(d) == os_path_join(experiment_data.directory, d)

\* C25: every trial directory made, every trial_info.json written and
\* every figure file saved is in the experiment directory or below it
C25_WritesStayInside ==
    /\ \A d \in directories : Inside(TrialPath(d), experiment_data.directory)
    /\ \A d \in TrialDirs :
          trial_info[d] # NoFile
          => Inside(TrialPath(d), experiment_data.directory)
    /\ \A f \in figure_files :
          Inside(TrialPath(f[1]), experiment_data.directory)

\* where line i of lines starts in the text that has the lines one after
\* the other, a line feed between two
RECURSIVE Offset(_, _)
Offset(lines, i) ==
    IF i = 1 THEN 0 ELSE Offset(lines, i - 1) + Len(lines[i - 1]) + 1

\* text is the lines in their order with a line feed between two, and
\* nothing else
HoldsLines(text, lines) ==
    /\ Len(text) = IF lines = << >> THEN 0
                   ELSE Offset(lines, Len(lines)) + Len(lines[Len(lines)])
    /\ \A i \in DOMAIN lines :
          /\ SubSeq(text, Offset(lines, i) + 1, Offset(lines, i) + Len(lines[i]))
                = lines[i]
          /\ i < Len(lines) => text[Offset(lines, i) + Len(lines[i]) + 1] = "\n"

\* the path written in the link of a line: what is between "](" and ")"
LinkOf(line) ==
    LET from == CHOOSE i \in DOMAIN line : line[i] = "]("
        to == CHOOSE i \in DOMAIN line : line[i] = ")"
    IN SubSeq(line, from + 1, to - 1)

\* C27: every write operation adds its line behind the lines written
\* before; save_file leaves the report file holding exactly the accumulated
\* lines in that order, whatever the file held before; and the link
\* write_figure puts in its line, followed from the directory of the
\* report, leads to the target
C27_SaveWritesLinesInOrder ==
    [][/\ file_lines' # file_lines
          => \/ file_lines' = << >>
             \/ /\ Len(file_lines') = Len(file_lines) + 1
                /\ SubSeq(file_lines', 1, Len(file_lines)) = file_lines
       /\ save_file
          => /\ report'.exists
             /\ HoldsLines(report'.content, file_lines)
             /\ file_lines' = file_lines
       /\ \A name \in Texts, path \in LinkTargets :
            write_figure(name, path)
            => LET line == file_lines'[Len(file_lines')]
               IN /\ line[1] = "!"
                  /\ Resolve(experiment_data.directory \o SplitPath(LinkOf(line)))
                        = Resolve(path)]_vars

\* a report that held two lines was saved again holding other lines, the
\* second one a link that leaves the experiment directory
C27_Witness ==
    /\ report.exists
    /\ Len(file_lines) = 2
    /\ report.content = JoinLines(file_lines)
    /\ file_lines[1][1] = "#"
    /\ file_lines[2][1] = "!"
    /\ LinkOf(file_lines[2]) = << ".", "/", ".", ".", "/", "x" >>

\* C26: when the experiment closes cleanly and every trial of the collection
\* can be sorted, the report is written with one section per trial of the
\* collection, in the order of the collection
C26_SectionPerTrial ==
    [][( /\ ExperimentCloses
         /\ exc_info = NoExc
         /\ \A i \in DOMAIN trials : HasSortKey(trials[i]) )
       => /\ report' # NoFile
          /\ report'.sections = TrialNamesOf(experiment_data'.trials)]_vars

\* max(n, 0)
Max0(n) == IF n > 0 THEN n ELSE 0

\* C30: a generated stream never yields more than max(num_trials, 0)
\* descriptors
C30_StreamFinite ==
    iterator # NoIterator => Len(yielded) <= Max0(iterator.num_trials)

\* the fields of a trial record that claim C31 names
PersistedFields ==
    { "name", "description", "start_time", "duration", "directory",
      "hyperparameters", "figures", "evaluation_metrics" }

\* the file agrees with the record on every persisted field the record has
Agrees(file, record) ==
    /\ file # NoFile
    /\ \A f \in PersistedFields \cap DOMAIN record :
          f \in DOMAIN file /\ file[f] = record[f]

\* C31: for every retained trial, the trial_info.json of its directory
\* agrees with the record of the collection on every persisted field
C31_FileAgreesWithRecord ==
    \A i \in DOMAIN trials : Agrees(trial_info[trials[i].directory], trials[i])

\* C32: two retained trials never have the same trial directory
C32_DirectoriesDistinct ==
    \A i, j \in DOMAIN trials :
        i # j => trials[i].directory # trials[j].directory

\* the names of the collection
NamesIn(ts) == Range(TrialNamesOf(ts))

\* C33: a name that is in the collection before the close of a trial is in
\* the collection after it, whatever the outcome of the close
C33_CloseKeepsNames ==
    [][\A o \in Objs : Closes(o) => NamesIn(trials) \subseteq NamesIn(experiment_data'.trials)]_vars

\* C34: a clean close of the experiment writes experiment_info.json and the
\* report, or neither of them
C34_CloseAllOrNothing ==
    [][(ExperimentCloses /\ exc_info = NoExc)
       => ((experiment_info' # experiment_info) <=> (report' # report))]_vars

C39_OtherKindRaisesValueError ==
    [][( /\ load_definitions_of_experiment
         /\ ~Malformed
         /\ GivenTrials.kind = "other" )
       => exc_info'.type = "ValueError"]_vars

\* C38: every invocation of the report renderer completes without a fault
\* and leaves the report written, whatever trial records the close policy
\* retained
C38_RenderCompletes ==
    [][(render_calls' = render_calls + 1)
       => (expPc' = "closed" /\ raised' = raised /\ report' # NoFile)]_vars

\* the hyperparameters of the descriptors, in their order
HyperparametersOf(ds) == [k \in DOMAIN ds |-> ds[k].hyperparameters]

\* C37: once a generated stream has signalled its end, a further request
\* yields nothing and leaves the stream as it is (it signals the end
\* again); suggest_next is called once for each descriptor yielded, in
\* the order of the yields, the descriptor carrying what the call returned,
\* and a request that signals the end makes no call
C37_EndPersistsOneCallPerYield ==
    [][IsGenerator(iterator)
       => /\ stops > 0
             => /\ yielded' = yielded
                /\ iterator' = iterator
                /\ stops' >= stops
          /\ stops' > stops => suggested' = suggested
          /\ Len(yielded') = Len(yielded) + 1
             => /\ Len(suggested') = Len(suggested) + 1
                /\ SubSeq(suggested', 1, Len(suggested)) = suggested
          /\ suggested' = HyperparametersOf(yielded')]_vars

\* a stream of three has ended twice over, after suggestions that differ
C37_Witness ==
    /\ IsGenerator(iterator)
    /\ stops = MaxStops
    /\ Len(yielded) = 3
    /\ suggested = << "hp_2", "hp_1", "hp_2" >>
    /\ HyperparametersOf(yielded) = suggested

\* the parent's result slots are given other content in this step
SlotsChange == _figures' # _figures \/ _evaluation_metrics' # _evaluation_metrics

\* the figures and evaluation_metrics of the recorded trials
Snapshots(ts) ==
    [i \in DOMAIN ts |-> [figures |-> ts[i].figures,
                          evaluation_metrics |-> ts[i].evaluation_metrics]]

\* C36: a recorded trial holds a snapshot of the results: a step that adds
\* or changes an entry of the parent's figures or evaluation_metrics,
\* by assignment or in place, changes neither field of any recorded trial
C36_RecordedSnapshot ==
    [][SlotsChange => Snapshots(experiment_data'.trials) = Snapshots(trials)]_vars

\* a trial is recorded with accuracy 1 and the parent's slot has since
\* been given accuracy 2
C36_Witness ==
    /\ trials # << >>
    /\ trials[1].evaluation_metrics = Put(<< >>, "accuracy", 1)
    /\ _evaluation_metrics = Put(<< >>, "accuracy", 2)
    /\ last_close = "none"

\* renderer once
RenderedOnceWhenKeyed ==
    [][( /\ ExperimentCloses
         /\ exc_info = NoExc
         /\ \A i \in DOMAIN trials : HasSortKey(trials[i]) )
         => /\ render_calls' = render_calls + 1
            /\ experiment_info' # NoFile
            /\ Descending(experiment_data'.trials)]_vars

====
